---- MODULE Spec2Model ----
(***************************************************************************)
(* IMCE E&S monitoring dashboard (app_v2.py and pages/*.py).               *)
(*                                                                         *)
(* The process imports eight page modules, each of which reads its CSV     *)
(* files into module-level tables; a Dash application then routes the URL  *)
(* pathname to a page layout and runs the filter callbacks of the page     *)
(* shown.  Spec is the whole application: start-up, navigation, dropdown   *)
(* selections and the callbacks they trigger.  SpecCall invokes the page   *)
(* functions (get_df, the cascade callbacks, the output callbacks and      *)
(* layout) directly, with arbitrary arguments, on the tables left by       *)
(* start-up.                                                               *)
(***************************************************************************)
EXTENDS Integers, Sequences, FiniteSets, TLC

VARIABLES
    files,        \* the CSV files on disk: dataset -> whether it exists, its rows
    phase,        \* "import" | "running" | "crashed"
    imported,     \* number of page modules imported so far (app_v2.py:11-18)
    error,        \* the exception that ended start-up, or "none"
    PAPS,         \* paps_page.PAPS
    WORKERS,      \* workers_page.WORKERS
    CONTRACTORS,  \* contractors_page.CONTRACTORS
    GRC,          \* grc_page.GRC
    DIST,         \* district_page.DIST
    CHK,          \* checklist_page.CHK
    ES,           \* executive_summary: PAPS, WORKERS, ... as dataset -> table
    CA,           \* cross_analysis: PAPS, WORKERS, ... as dataset -> table
    pathname,     \* dcc.Location(id='url').pathname
    content,      \* children of 'page-content': the layout shown
    sel,          \* value of the dropdowns of the page shown
    opts,         \* options of the dropdowns of the page shown
    pending,      \* callbacks triggered and not yet run
    out,          \* outputs of the page shown: callback -> what it rendered
    sidebar,      \* children of 'sidebar-nav': the NAV paths drawn as active
    call          \* SpecCall: the last direct invocation and its result

vars == <<files, phase, imported, error, PAPS, WORKERS, CONTRACTORS, GRC,
          DIST, CHK, ES, CA, pathname, content, sel, opts, pending, out, sidebar,
          call>>

tables == <<PAPS, WORKERS, CONTRACTORS, GRC, DIST, CHK, ES, CA>>
ui     == <<pathname, content, sel, opts, pending, out, sidebar>>

-----------------------------------------------------------------------------
(* Bounds of the model *)

MaxRows  == 2    \* rows of a CSV file under Spec
MaxOdd   == 1    \* CSV files that are absent or hold a header only
CallRows == 3    \* rows of a one-district survey under SpecCall
FigRows  == 2    \* rows of the CSV whose figures vary, under SpecData

-----------------------------------------------------------------------------
(* Values *)

ALL    == "ALL"
None   == "None"       \* Python None
NaN    == "NaN"        \* a missing cell of a DataFrame

Datasets == {"PAPs", "workers", "contractors", "GRC", "district", "checklist"}

\* Every string a cell or a dropdown can hold here, in Python's sorted() order
\* (code-point order: upper case before lower case, a prefix before its
\* extensions).
NameOrder == <<"", "ALL", "Cyuve", "East", "Gasabo", "Gasabo ", "Gasbo",
               "Musanze", "Nowhere", "Remera", "West", "gasabo">>

Names == {NameOrder[i] : i \in 1..Len(NameOrder)}

\* sorted(set of strings)
Sorted(S) == SelectSeq(NameOrder, LAMBDA n : n \in S)

\* Python truthiness of a dropdown value (None and '' are falsy)
Truthy(v) == v \notin {None, ""}

\* pandas ==: a missing cell equals nothing
Eq(cell, v) == cell # NaN /\ cell = v

Range(s) == {s[i] : i \in 1..Len(s)}

\* Series.str.strip()
strip(x) == IF x = "Gasabo " THEN "Gasabo" ELSE x

\* Series.str.title()
title(x) == IF x = "gasabo" THEN "Gasabo" ELSE x

-----------------------------------------------------------------------------
(* Numbers: the figures of the tables are whole numbers, and what the pages *)
(* derive from them with /, * and + is a ratio <<numerator, denominator>>   *)
(* kept in lowest terms                                                     *)

RECURSIVE GCD(_, _)
GCD(a, b) == IF b = 0 THEN a ELSE GCD(b, a % b)

Frac(n, d) ==
    IF n % d = 0 THEN <<n \div d, 1>>
    ELSE LET g == GCD(IF n < 0 THEN -n ELSE n, d) IN <<n \div g, d \div g>>

Plus(x, y) ==
    IF x[2] = y[2] THEN Frac(x[1] + y[1], x[2])
    ELSE Frac(x[1] * y[2] + y[1] * x[2], x[2] * y[2])

Times(x, y) == Frac(x[1] * y[1], x[2] * y[2])

Less(x, y) == x[1] * y[2] < y[1] * x[2]

\* np.nan in a column of numbers that may miss a value: the other cells of such
\* a column are ratios
nan == <<>>

\* Series.clip(upper=k) and Series.clip(lower=k) on one number
clip_upper(x, k) == IF Less(<<k, 1>>, x) THEN <<k, 1>> ELSE x

clip_lower(x, k) == IF Less(x, <<k, 1>>) THEN <<k, 1>> ELSE x

\* sum(...) and Series.sum() of a sequence of numbers
RECURSIVE sum(_)
sum(q) == IF q = <<>> THEN <<0, 1>> ELSE Plus(q[1], sum(Tail(q)))

-----------------------------------------------------------------------------
(* DataFrames: the column names and the rows, in file order *)

\* pd.DataFrame()
DataFrame == [cols |-> {}, rows |-> <<>>]

\* DataFrame.empty: no column or no row
empty(df) == df.cols = {} \/ df.rows = <<>>

MapRows(rows, F(_)) == [i \in 1..Len(rows) |-> F(rows[i])]

\* the columns of each file that the pages read; the cell under INST_COLS,
\* COMP_BOOL_COLS, FACIL_COLS or GRM_FACIL_COLS is the number of columns of
\* that list that hold 1 (or 'Yes') in the row
CsvCols ==
    [d \in Datasets |->
       CASE d = "PAPs"        -> {"district", "sector", "site_name",
                                  "compensation_received",
                                  "grievance_resolved"}
         [] d = "workers"     -> {"site_name", "role", "gender",
                                  "training_count", "train_gbv"}
         [] d = "contractors" -> {"site_name", "company_name", "INST_COLS",
                                  "COMP_BOOL_COLS", "training_exact_number",
                                  "total_workers", "women_percent",
                                  "local_percent", "incidents_occurred",
                                  "incidents_count"}
         [] d = "GRC"         -> {"district", "sector", "cell",
                                  "pending_reason", "complaints_received",
                                  "complaints_resolved",
                                  "complaints_escalated",
                                  "complaints_pending", "training_count",
                                  "FACIL_COLS"}
         [] d = "district"    -> {"district_name", "site_name",
                                  "not_compensated_reason",
                                  "compensation_progress",
                                  "households_affected",
                                  "not_yet_compensated_count", "INST_COLS",
                                  "staff_env_specialist",
                                  "staff_social_specialist", "GRM_FACIL_COLS"}
         [] d = "checklist"   -> {"compensation_progress_pct",
                                  "compensation_timing_months"}]

\* pd.read_csv(p) of a file that exists
read_csv(fs, d) == [cols |-> CsvCols[d], rows |-> fs[d].rows]

\* the loop over `paths` followed by read_csv: the first path that exists
read_first(fs, d) == IF fs[d].exists THEN read_csv(fs, d) ELSE DataFrame

district_map(x) == IF x = "Gasbo" THEN "Gasabo" ELSE x

load_paps(fs) ==
    LET df == read_first(fs, "PAPs") IN
    IF empty(df) THEN df
    ELSE [cols |-> df.cols \cup {"impact_count", "risk_flag"},
          rows |-> MapRows(df.rows, LAMBDA r :
                     [r EXCEPT !.district  = district_map(strip(@)),
                               !.site_name = strip(@),
                               !.sector    = strip(@)])]

load_workers(fs) ==
    LET df == read_first(fs, "workers") IN
    IF empty(df) THEN df
    ELSE [cols |-> df.cols \cup {"site_category", "vuln_score", "train_score"},
          rows |-> MapRows(df.rows, LAMBDA r :
                     [r EXCEPT !.site_name = strip(@)])]

\* none of the COMPANY_MAP keys is among the names of the model
COMPANY_MAP(x) == x

\* count / len(cols) * 100
score_of(n, len) == Frac(100 * n, len)

\* (a / b * 100).fillna(0).clip(upper=100): 0 / 0 is NaN, a / 0 is inf
coverage(a, b) ==
    IF b = 0 THEN (IF a = 0 THEN <<0, 1>> ELSE <<100, 1>>)
    ELSE clip_upper(Frac(100 * a, b), 100)

\* a global score with two of the weights exchanged
contractors_global_swapped(inst, comp, training, women, local) ==
    Plus(Plus(Plus(Plus(Times(inst, <<3, 10>>), Times(comp, <<2, 10>>)),
                   Times(clip_upper(training, 100), <<3, 10>>)),
              Times(Frac(100 * clip_upper(women, 50)[1],
                         50 * clip_upper(women, 50)[2]), <<1, 10>>)),
         Times(clip_upper(local, 100), <<1, 10>>))

contractors_global_score(inst, comp, training, women, local) ==
    Plus(Plus(Plus(Plus(Times(inst, <<3, 10>>), Times(comp, <<3, 10>>)),
                   Times(clip_upper(training, 100), <<2, 10>>)),
              Times(Frac(100 * clip_upper(women, 50)[1],
                         50 * clip_upper(women, 50)[2]), <<1, 10>>)),
         Times(clip_upper(local, 100), <<1, 10>>))

load_contractors(fs) ==
    LET df == read_first(fs, "contractors") IN
    IF empty(df) THEN df
    ELSE [cols |-> df.cols \cup {"company_clean", "inst_score", "comp_score",
                                 "training_coverage", "global_score"},
          rows |-> MapRows(df.rows, LAMBDA r :
                     LET inst     == score_of(r.INST_COLS, 5)
                         comp     == score_of(r.COMP_BOOL_COLS, 4)
                         training == coverage(r.training_exact_number,
                                              r.total_workers)
                     IN  [site_name     |-> strip(r.site_name),
                          company_name  |-> r.company_name,
                          company_clean |-> strip(COMPANY_MAP(r.company_name)),
                          INST_COLS      |-> r.INST_COLS,
                          COMP_BOOL_COLS |-> r.COMP_BOOL_COLS,
                          training_exact_number |-> r.training_exact_number,
                          total_workers  |-> r.total_workers,
                          women_percent  |-> r.women_percent,
                          local_percent  |-> r.local_percent,
                          incidents_occurred |-> r.incidents_occurred,
                          incidents_count    |-> r.incidents_count,
                          inst_score    |-> inst,
                          comp_score    |-> comp,
                          training_coverage |-> training,
                          global_score  |->
                              contractors_global_score(
                                  inst, comp, training,
                                  <<r.women_percent, 1>>,
                                  <<r.local_percent, 1>>)])]

\* the same ratio with no cap
rate_uncapped(part, received) ==
    IF received = 0 THEN <<0, 1>> ELSE Frac(100 * part, received)

\* (part / received.replace(0, np.nan) * 100).fillna(0).clip(upper=100)
rate_of(part, received) ==
    IF received = 0 THEN <<0, 1>>
    ELSE clip_upper(Frac(100 * part, received), 100)

grc_global_score(resolution, train, facil, esc) ==
    Plus(Plus(Plus(Times(resolution, <<40, 100>>), Times(train, <<20, 100>>)),
              Times(facil, <<20, 100>>)),
         Times(esc, <<20, 100>>))

load_grc(fs) ==
    LET df == read_first(fs, "GRC") IN
    IF empty(df) THEN df
    ELSE [cols |-> df.cols \cup {"resolution_rate", "escalation_rate",
                                 "pending_rate", "facil_score", "train_score",
                                 "esc_score", "global_score"},
          rows |-> MapRows(df.rows, LAMBDA r :
                     LET resolution == rate_of(r.complaints_resolved,
                                               r.complaints_received)
                         escalation == rate_of(r.complaints_escalated,
                                               r.complaints_received)
                         pend       == rate_of(r.complaints_pending,
                                               r.complaints_received)
                         facil == score_of(r.FACIL_COLS, 5)
                         train == Frac(100 * r.training_count, 3)
                         esc   == clip_lower(
                                      Plus(<<100, 1>>,
                                           <<-escalation[1], escalation[2]>>),
                                      0)
                     IN  [district |-> title(strip(r.district)),
                          sector   |-> title(strip(r.sector)),
                          cell     |-> title(strip(r.cell)),
                          pending_reason       |-> r.pending_reason,
                          complaints_received  |-> r.complaints_received,
                          complaints_resolved  |-> r.complaints_resolved,
                          complaints_escalated |-> r.complaints_escalated,
                          complaints_pending   |-> r.complaints_pending,
                          training_count       |-> r.training_count,
                          FACIL_COLS           |-> r.FACIL_COLS,
                          resolution_rate |-> resolution,
                          escalation_rate |-> escalation,
                          pending_rate    |-> pend,
                          facil_score     |-> facil,
                          train_score     |-> train,
                          esc_score       |-> esc,
                          global_score    |->
                              grc_global_score(resolution, train, facil,
                                               esc)])]

district_global_score(compensation, inst, staff, grm_facil) ==
    Plus(Plus(Plus(Times(compensation, <<35, 100>>), Times(inst, <<25, 100>>)),
              Times(staff, <<20, 100>>)),
         Times(grm_facil, <<20, 100>>))

load_district(fs) ==
    LET df == read_first(fs, "district") IN
    IF empty(df) THEN df
    ELSE [cols |-> df.cols \cup {"compensation_rate", "inst_score",
                                 "staff_score", "grm_facil_score",
                                 "global_score", "comp_anomaly"},
          rows |-> MapRows(df.rows, LAMBDA r :
                     LET compensation ==
                             \* to_numeric(...).clip(upper=100).fillna(0)
                             IF r.compensation_progress = nan THEN <<0, 1>>
                             ELSE clip_upper(r.compensation_progress, 100)
                         inst  == score_of(r.INST_COLS, 9)
                         staff == score_of(r.staff_env_specialist
                                             + r.staff_social_specialist, 2)
                         grm   == score_of(r.GRM_FACIL_COLS, 4)
                     IN  [district_name |-> strip(r.district_name),
                          site_name     |-> strip(r.site_name),
                          not_compensated_reason |-> r.not_compensated_reason,
                          compensation_progress  |-> r.compensation_progress,
                          households_affected    |-> r.households_affected,
                          not_yet_compensated_count |->
                              r.not_yet_compensated_count,
                          INST_COLS |-> r.INST_COLS,
                          staff_env_specialist    |-> r.staff_env_specialist,
                          staff_social_specialist |-> r.staff_social_specialist,
                          GRM_FACIL_COLS |-> r.GRM_FACIL_COLS,
                          compensation_rate |-> compensation,
                          inst_score      |-> inst,
                          staff_score     |-> staff,
                          grm_facil_score |-> grm,
                          global_score    |->
                              district_global_score(compensation, inst,
                                                    staff, grm),
                          comp_anomaly    |->
                              r.not_yet_compensated_count
                                  > r.households_affected])]

load_checklist(fs) == read_first(fs, "checklist")

\* executive_summary.load_all: read_csv of the six fixed paths, no exists()
\* test; the exception of the first file that is absent, else the tables
load_all_raises(fs) == \E d \in Datasets : ~fs[d].exists

load_all(fs) == [d \in Datasets |-> read_csv(fs, d)]

\* executive_summary.compute_metrics, run at import (M = compute_metrics()):
\* the exception it ends with, or "none"
compute_metrics_error(t) ==
    CASE Len(t["PAPs"].rows) = 0        -> "ZeroDivisionError"
      [] Len(t["workers"].rows) = 0     -> "ZeroDivisionError"
      [] Len(t["contractors"].rows) = 0 -> "ZeroDivisionError"
      [] Len(t["checklist"].rows) = 0   -> "IndexError"
      [] OTHER                          -> "none"

\* cross_analysis module level: six read_csv, then the district_key columns
cross_load(fs) ==
    [d \in Datasets |->
       IF d \in {"district", "GRC", "PAPs"}
       THEN [read_csv(fs, d) EXCEPT !.cols = @ \cup {"district_key"}]
       ELSE read_csv(fs, d)]

-----------------------------------------------------------------------------
(* The files found at start-up *)

\* the cells of a survey row: a top-level area, a sub-area that may be missing,
\* a leaf, and a Yes/No answer that follows the leaf
K1 == {"Gasabo", "Musanze"}
K2 == {NaN, "Cyuve", "Remera"}
K3 == {"East", "West"}

Answer(c) == IF c = "East" THEN "Yes" ELSE "No"

\* the spellings of Gasabo found in a file
Spellings == {"Gasabo", "Gasabo ", "Gasbo", "gasabo"}

Spell(a, sp) == IF a = "Gasabo" THEN sp ELSE a

SeqsUpTo(S, n) == UNION {[1..k -> S] : k \in 1..n}

\* the surveys of at most n distinct rows, and the one met with odd files or
\* an odd spelling
Surveys(n) == {Range(s) : s \in SeqsUpTo(K1 \X K2 \X K3, n)}

BaseSurvey == {<<"Gasabo", "Cyuve", "East">>}

SeqOf(S) == CHOOSE s \in [1..Cardinality(S) -> S] : Range(s) = S

\* the figures of a row where nothing is amiss
BaseFigure(d) ==
    CASE d = "contractors" -> [INST_COLS |-> 5, COMP_BOOL_COLS |-> 4,
                               training_exact_number |-> 10,
                               total_workers |-> 10, women_percent |-> 50,
                               local_percent |-> 100,
                               incidents_occurred |-> "No",
                               incidents_count |-> nan]
      [] d = "GRC"         -> [complaints_received |-> 2,
                               complaints_resolved |-> 2,
                               complaints_escalated |-> 0,
                               complaints_pending |-> 0,
                               training_count |-> 3, FACIL_COLS |-> 5]
      [] d = "district"    -> [compensation_progress |-> <<100, 1>>,
                               households_affected |-> 10,
                               not_yet_compensated_count |-> 0,
                               INST_COLS |-> 9, staff_env_specialist |-> 1,
                               staff_social_specialist |-> 1,
                               GRM_FACIL_COLS |-> 4]

\* the same survey row written with the column names of each file, with the
\* figures f of the row
FileRow(d, a, b, c, y, f) ==
    CASE d = "PAPs"        -> [district |-> a, sector |-> b, site_name |-> c,
                               compensation_received |-> y,
                               grievance_resolved |-> "Fully resolved"]
      [] d = "workers"     -> [site_name |-> a, role |-> b, gender |-> c,
                               training_count |-> IF y = "Yes" THEN 1 ELSE 0,
                               train_gbv |-> IF y = "Yes" THEN 1 ELSE 0]
      [] d = "contractors" -> [site_name |-> a, company_name |-> b,
                               INST_COLS |-> f.INST_COLS,
                               COMP_BOOL_COLS |-> f.COMP_BOOL_COLS,
                               training_exact_number |->
                                   f.training_exact_number,
                               total_workers |-> f.total_workers,
                               women_percent |-> f.women_percent,
                               local_percent |-> f.local_percent,
                               incidents_occurred |-> f.incidents_occurred,
                               incidents_count |-> f.incidents_count]
      [] d = "GRC"         -> [district |-> a, sector |-> b, cell |-> c,
                               pending_reason |->
                                   IF y = "No" THEN "Remera" ELSE NaN,
                               complaints_received |-> f.complaints_received,
                               complaints_resolved |-> f.complaints_resolved,
                               complaints_escalated |->
                                   f.complaints_escalated,
                               complaints_pending |-> f.complaints_pending,
                               training_count |-> f.training_count,
                               FACIL_COLS |-> f.FACIL_COLS]
      [] d = "district"    -> [district_name |-> a, site_name |-> b,
                               not_compensated_reason |->
                                   IF y = "No" THEN "Remera" ELSE NaN,
                               compensation_progress |->
                                   f.compensation_progress,
                               households_affected |-> f.households_affected,
                               not_yet_compensated_count |->
                                   f.not_yet_compensated_count,
                               INST_COLS |-> f.INST_COLS,
                               staff_env_specialist |->
                                   f.staff_env_specialist,
                               staff_social_specialist |->
                                   f.staff_social_specialist,
                               GRM_FACIL_COLS |-> f.GRM_FACIL_COLS]
      [] d = "checklist"   -> [compensation_progress_pct |-> 11,
                               compensation_timing_months |-> 12]

FileRows(d, seed, sp) ==
    IF d = "checklist" THEN <<FileRow(d, "", "", "", "", <<>>)>>
    ELSE [i \in 1..Len(seed) |->
            FileRow(d, Spell(seed[i][1], sp), seed[i][2], seed[i][3],
                    Answer(seed[i][3]),
                    IF d \in {"contractors", "GRC", "district"}
                    THEN BaseFigure(d) ELSE <<>>)]

\* a file system: each CSV is absent, holds its header only, or holds rows
FileSystem(seed, sp, absent, header) ==
    [d \in Datasets |->
       [exists |-> d \notin absent,
        rows   |-> IF d \in absent \cup header THEN <<>>
                   ELSE FileRows(d, seed, sp)]]

\* the figures a row of contractors_clean.csv, GRC_clean.csv or
\* district_clean.csv is met with
ContractorFigure(t) ==
    [INST_COLS |-> t[1], COMP_BOOL_COLS |-> t[2],
     training_exact_number |-> t[3], total_workers |-> t[4],
     women_percent |-> t[5], local_percent |-> t[6],
     incidents_occurred |-> t[7], incidents_count |-> t[8]]

GrcFigure(t) ==
    [complaints_received |-> t[1], complaints_resolved |-> t[2],
     complaints_escalated |-> t[3], training_count |-> t[4],
     FACIL_COLS |-> t[5], complaints_pending |-> t[6]]

DistrictFigure(t) ==
    [compensation_progress |-> t[1], households_affected |-> t[2],
     not_yet_compensated_count |-> t[3], INST_COLS |-> t[4],
     staff_env_specialist |-> t[5], staff_social_specialist |-> t[6],
     GRM_FACIL_COLS |-> t[7]]

Figures(d) ==
    CASE d = "contractors" ->
             {ContractorFigure(t) :
                t \in {<<5, 4, 10, 10, 50, 100, "No", nan>>,
                       <<0, 0, 0, 0, 0, 0, "Yes", nan>>,
                       <<2, 1, 5, 0, 60, 120, "Yes", <<2, 1>>>>,
                       <<3, 2, 1, 3, 25, 40, "No", <<0, 1>>>>,
                       <<5, 4, 20, 10, 10, 100, "Yes", <<1, 1>>>>}}
      [] d = "GRC" ->
             {GrcFigure(t) :
                t \in {<<2, 2, 0, 3, 5, 0>>, <<0, 0, 0, 0, 0, 0>>,
                       <<3, 0, 1, 1, 2, 3>>, <<1, 2, 0, 0, 0, 2>>,
                       <<3, 1, 3, 2, 4, 2>>, <<1, 1, 1, 3, 5, 0>>,
                       <<2, 2, 0, 4, 5, 0>>}}
      [] d = "district" ->
             {DistrictFigure(t) :
                t \in {<<<<100, 1>>, 10, 0, 9, 1, 1, 4>>,
                       <<nan, 10, 2, 9, 1, 1, 4>>,
                       <<<<20, 1>>, 10, 8, 0, 0, 0, 0>>,
                       <<<<150, 1>>, 10, 0, 7, 1, 0, 2>>,
                       <<<<20, 1>>, 5, 9, 6, 0, 1, 3>>,
                       <<<<50, 1>>, 30, 5, 8, 1, 1, 4>>,
                       <<<<40, 1>>, 0, 0, 9, 0, 0, 4>>}}

\* the survey of n rows met with varying figures
FigSeed(n) ==
    [i \in 1..n |-> <<IF i % 2 = 1 THEN "Gasabo" ELSE "Musanze", "Cyuve",
                      "East">>]

\* every file present with as many rows as figs, which are the figures of the
\* rows of file d0
FigureSystem(d0, figs) ==
    LET seed == FigSeed(Len(figs)) IN
    [d \in Datasets |->
       [exists |-> TRUE,
        rows   |-> IF d # d0 THEN FileRows(d, seed, "Gasabo")
                   ELSE [i \in 1..Len(figs) |->
                           FileRow(d, seed[i][1], seed[i][2], seed[i][3],
                                   "Yes", figs[i])]]]

FigureSystems(n) ==
    UNION {{FigureSystem(d0, SeqOf(F)) :
              F \in {Range(q) : q \in SeqsUpTo(Figures(d0), n)}} :
           d0 \in {"contractors", "GRC", "district"}}

-----------------------------------------------------------------------------
(* Start-up: app_v2.py imports the page modules in order, each import runs *)
(* the module-level loads; an exception ends the process.                   *)

NoCall == [fn |-> "none"]

\* the file systems of the model: surveys of at most n rows, and the base
\* survey with an odd spelling or with at most MaxOdd odd files
FileSystems(n) ==
    {FileSystem(SeqOf(survey), "Gasabo", {}, {}) : survey \in Surveys(n)}
    \cup {FileSystem(SeqOf(BaseSurvey), sp, {}, {}) : sp \in Spellings}
    \cup {FileSystem(SeqOf(BaseSurvey), "Gasabo", odd \cap absent,
                     odd \ absent) :
            odd \in {o \in SUBSET Datasets : Cardinality(o) <= MaxOdd},
            absent \in SUBSET Datasets}

\* no page shown yet
NoPage ==
    /\ pathname = None
    /\ content = [page |-> "none", kind |-> "none"]
    /\ sel = <<>>
    /\ opts = <<>>
    /\ pending = {}
    /\ out = <<>>
    /\ sidebar = {}

Init ==
    /\ files \in FileSystems(MaxRows)
    /\ phase = "import"
    /\ imported = 0
    /\ error = "none"
    /\ PAPS = DataFrame /\ WORKERS = DataFrame /\ CONTRACTORS = DataFrame
    /\ GRC = DataFrame /\ DIST = DataFrame /\ CHK = DataFrame
    /\ ES = [d \in Datasets |-> DataFrame]
    /\ CA = [d \in Datasets |-> DataFrame]
    /\ NoPage
    /\ call = NoCall

Importing(n) == phase = "import" /\ imported = n

import_paps_page ==
    /\ Importing(0)
    /\ PAPS' = load_paps(files)
    /\ imported' = 1
    /\ UNCHANGED <<files, phase, error, WORKERS, CONTRACTORS, GRC, DIST, CHK,
                   ES, CA, ui, call>>

import_workers_page ==
    /\ Importing(1)
    /\ WORKERS' = load_workers(files)
    /\ imported' = 2
    /\ UNCHANGED <<files, phase, error, PAPS, CONTRACTORS, GRC, DIST, CHK,
                   ES, CA, ui, call>>

import_contractors_page ==
    /\ Importing(2)
    /\ CONTRACTORS' = load_contractors(files)
    /\ imported' = 3
    /\ UNCHANGED <<files, phase, error, PAPS, WORKERS, GRC, DIST, CHK,
                   ES, CA, ui, call>>

import_grc_page ==
    /\ Importing(3)
    /\ GRC' = load_grc(files)
    /\ imported' = 4
    /\ UNCHANGED <<files, phase, error, PAPS, WORKERS, CONTRACTORS, DIST, CHK,
                   ES, CA, ui, call>>

import_district_page ==
    /\ Importing(4)
    /\ DIST' = load_district(files)
    /\ imported' = 5
    /\ UNCHANGED <<files, phase, error, PAPS, WORKERS, CONTRACTORS, GRC, CHK,
                   ES, CA, ui, call>>

import_checklist_page ==
    /\ Importing(5)
    /\ CHK' = load_checklist(files)
    /\ imported' = 6
    /\ UNCHANGED <<files, phase, error, PAPS, WORKERS, CONTRACTORS, GRC, DIST,
                   ES, CA, ui, call>>

import_executive_summary ==
    /\ Importing(6)
    /\ IF load_all_raises(files)
       THEN /\ phase' = "crashed"
            /\ error' = "FileNotFoundError"
            /\ UNCHANGED <<ES, imported>>
       ELSE /\ ES' = load_all(files)
            /\ IF compute_metrics_error(load_all(files)) # "none"
               THEN /\ phase' = "crashed"
                    /\ error' = compute_metrics_error(load_all(files))
                    /\ UNCHANGED imported
               ELSE /\ imported' = 7
                    /\ UNCHANGED <<phase, error>>
    /\ UNCHANGED <<files, PAPS, WORKERS, CONTRACTORS, GRC, DIST, CHK, CA, ui,
                   call>>

import_cross_analysis ==
    /\ Importing(7)
    /\ IF load_all_raises(files)
       THEN /\ phase' = "crashed"
            /\ error' = "FileNotFoundError"
            /\ UNCHANGED <<CA, imported>>
       ELSE /\ CA' = cross_load(files)
            /\ imported' = 8
            /\ UNCHANGED <<phase, error>>
    /\ UNCHANGED <<files, PAPS, WORKERS, CONTRACTORS, GRC, DIST, CHK, ES, ui,
                   call>>

-----------------------------------------------------------------------------
(* Filtering: the idioms shared by get_df and the cascade callbacks *)

\* a local DataFrame of a callback: `shared` says that it is the module-level
\* object itself and not a copy, `raised` the exception met so far
Raise(exc) == [kind |-> "raise", exc |-> exc]

\* TABLE itself, .copy() left out
alias(T) == [cols |-> T.cols, rows |-> T.rows, shared |-> TRUE,
             raised |-> "none"]

\* TABLE.copy()
copy(T) == [cols |-> T.cols, rows |-> T.rows, shared |-> FALSE,
            raised |-> "none"]

\* if v and v != 'ALL'
Active(v) == Truthy(v) /\ v # ALL

\* the filter left out
no_filter(df, col, v) == df

\* if v != 'ALL': the test of v's truth left out
filter_unless_all(df, col, v) ==
    IF df.raised # "none" \/ v = ALL THEN df
    ELSE IF col \notin df.cols THEN [df EXCEPT !.raised = "KeyError"]
    ELSE [df EXCEPT !.rows = SelectSeq(@, LAMBDA r : Eq(r[col], v)),
                    !.shared = FALSE]

\* if v and v != 'ALL': df = df[df[col] == v]
filter_if(df, col, v) ==
    IF df.raised # "none" \/ ~Active(v) THEN df
    ELSE IF col \notin df.cols THEN [df EXCEPT !.raised = "KeyError"]
    ELSE [df EXCEPT !.rows = SelectSeq(@, LAMBDA r : Eq(r[col], v)),
                    !.shared = FALSE]

\* .dropna() left out: sorted() of a float among strings
options_no_dropna(df, col) ==
    IF df.raised # "none" \/ col \notin df.cols THEN Raise("KeyError")
    ELSE IF NaN \in {r[col] : r \in Range(df.rows)} THEN Raise("TypeError")
    ELSE [kind    |-> "options",
          options |-> <<ALL>> \o Sorted({r[col] : r \in Range(df.rows)}),
          value   |-> ALL]

\* the value returned with the options is the last of them
options_keep(df, col) ==
    IF df.raised # "none" \/ col \notin df.cols THEN Raise("KeyError")
    ELSE LET o == <<ALL>> \o Sorted({r[col] : r \in Range(df.rows)} \ {NaN})
         IN  [kind |-> "options", options |-> o, value |-> o[Len(o)]]

\* [{'label': .., 'value': 'ALL'}] + [.. for s in
\*      sorted(df[col].dropna().unique().tolist())], 'ALL'
options_of(df, col) ==
    IF df.raised # "none" \/ col \notin df.cols THEN Raise("KeyError")
    ELSE [kind    |-> "options",
          options |-> <<ALL>> \o Sorted({r[col] : r \in Range(df.rows)} \ {NaN}),
          value   |-> ALL]

(* paps_page *)

paps_get_df(district, sector, site) ==
    LET df == copy(PAPS) IN
    IF empty(df) THEN df
    ELSE filter_if(filter_if(filter_if(df, "district", district),
                             "sector", sector), "site_name", site)

paps_update_sector_options(district) ==
    options_of(filter_if(copy(PAPS), "district", district), "sector")

paps_update_site_options(district, sector) ==
    options_of(filter_if(filter_if(copy(PAPS), "district", district),
                         "sector", sector), "site_name")

(* workers_page *)

workers_get_df(site, role, gender) ==
    LET df == copy(WORKERS) IN
    IF empty(df) THEN df
    ELSE filter_if(filter_if(filter_if(df, "site_name", site),
                             "role", role), "gender", gender)

workers_update_role_options(site) ==
    options_of(filter_if(copy(WORKERS), "site_name", site), "role")

workers_update_gender_options(site, role) ==
    options_of(filter_if(filter_if(copy(WORKERS), "site_name", site),
                         "role", role), "gender")

(* contractors_page *)

contractors_get_df(site, company) ==
    LET df == copy(CONTRACTORS) IN
    IF empty(df) THEN df
    ELSE filter_if(filter_if(df, "site_name", site), "company_clean", company)

contractors_update_company_options(site) ==
    options_of(filter_if(copy(CONTRACTORS), "site_name", site),
               "company_clean")

(* grc_page *)

grc_get_df(district, sector, cell) ==
    LET df == copy(GRC) IN
    IF empty(df) THEN df
    ELSE filter_if(filter_if(filter_if(df, "district", district),
                             "sector", sector), "cell", cell)

grc_update_sector_options(district) ==
    options_of(filter_if(copy(GRC), "district", district), "sector")

grc_update_cell_options(district, sector) ==
    options_of(filter_if(filter_if(copy(GRC), "district", district),
                         "sector", sector), "cell")

(* district_page *)

district_get_df(district, site) ==
    LET df == copy(DIST) IN
    IF empty(df) THEN df
    ELSE filter_if(filter_if(df, "district_name", district),
                   "site_name", site)

district_update_site_options(district) ==
    options_of(filter_if(copy(DIST), "district_name", district), "site_name")

-----------------------------------------------------------------------------
(* The filter-driven output callbacks, named <<page, function>>, grouped by *)
(* what they do with an empty get_df                                        *)

Of(pg, fns) == {<<pg, f>> : f \in fns}

PageOf(cb) == cb[1]

\* df = get_df(...); if df.empty: return go.Figure()
FigureCallbacks ==
    Of("paps",
       {"impact_types", "impact_multiplicity", "impact_heatmap",
        "comp_by_district", "info_funnel", "consultation", "sea_channel",
        "grm_funnel", "grm_channels", "grm_resolution", "non_submitters",
        "response_time", "channel_used", "sat_by_timing", "sat_by_impact",
        "sat_by_district", "assistance", "comp_timing"})
    \cup Of("workers",
       {"site_category", "role_gender", "age_gender", "rights_overall",
        "rights_by_role", "rights_by_gender", "vuln_profile",
        "accident_site", "accident_types", "accident_role",
        "accident_training", "accident_ppe", "training_types",
        "training_site", "payment_freq", "payment_site",
        "grievance_channel", "grm_contract"})
    \cup Of("contractors",
       {"instruments", "staff", "es_bidding", "payment", "women_site",
        "local_site", "workers_total_current", "gender_split",
        "incidents", "ppe_freq", "ppe_types", "training_coverage",
        "training_numbers", "waste", "compliance"})
    \cup Of("grc",
       {"funnel", "resolution_rate", "volume", "complaint_types",
        "types_per_grc", "escalation_rate", "escalated_to",
        "resolution_time", "time_vs_rate", "facilities",
        "facil_vs_resolution"})
    \cup Of("district",
       {"comp_rate", "comp_timing", "pending_bar", "impact_stacked",
        "displacement", "staff_chart", "grm_count", "grm_facil",
        "grm_composition"})

\* if df.empty: return [html.Div('—')] * 6
KpiCallbacks ==
    {<<"paps", "update_kpis">>, <<"workers", "update_kpis">>, <<"contractors", "update_kpis">>,
     <<"grc", "update_kpis">>, <<"district", "update_kpis">>}

\* if df.empty: return html.Div('—')
DashCallbacks ==
    {<<"paps", "risk_summary">>, <<"workers", "risk_summary">>, <<"contractors", "inst_matrix">>,
     <<"contractors", "compliance_flags">>}

\* if df.empty: return html.Div('No data available.') / html.Div('No data.')
NoDataCallbacks ==
    {<<"workers", "site_risk">>, <<"contractors", "scoring_table">>, <<"grc", "scoring_table">>,
     <<"district", "instruments_heatmap">>, <<"district", "scoring_table">>}

\* no test of df.empty before the first df[column]
UnguardedCallbacks ==
    {<<"paps", "update_uncomp_table">>, <<"workers", "zero_training_table">>,
     <<"grc", "pending_reasons">>, <<"district", "pending_reasons">>,
     <<"district", "update_alerts">>}

OutputCallbacks ==
    FigureCallbacks \cup KpiCallbacks \cup DashCallbacks
        \cup NoDataCallbacks \cup UnguardedCallbacks

\* what a callback hands back to Dash
EmptyFigure    == [kind |-> "empty_figure"]             \* go.Figure()
Figure(n)      == [kind |-> "figure", rows |-> n]
DASH           == "-"                                   \* the em dash
Text(t)        == [kind |-> "text", text |-> t]         \* html.Div(t)
Check(t)       == [kind |-> "check", text |-> t]        \* a tick and a sentence
Rendered(n)    == [kind |-> "rendered", rows |-> n]     \* markup of n rows
EmptySpan      == [kind |-> "span"]                     \* html.Span()

\* the quotient cut to an integer
fmt_floor(num, den) == num \div den

\* f'{num/den:.0f}': the quotient rounded to an integer, a tie to the even one
fmt0(num, den) ==
    LET q == num \div den
        r == num % den
    IN  IF 2 * r < den THEN q
        ELSE IF 2 * r > den THEN q + 1
        ELSE IF q % 2 = 0 THEN q ELSE q + 1

count(rows, col, v) == Len(SelectSeq(rows, LAMBDA r : Eq(r[col], v)))

get_df(pg, a) ==
    CASE pg = "paps"        -> paps_get_df(a[1], a[2], a[3])
      [] pg = "workers"     -> workers_get_df(a[1], a[2], a[3])
      [] pg = "contractors" -> contractors_get_df(a[1], a[2])
      [] pg = "grc"         -> grc_get_df(a[1], a[2], a[3])
      [] pg = "district"    -> district_get_df(a[1], a[2])

\* paps_page.update_kpis: the cards, of which the Compensation Rate card
\* shows f'{comp_pct:.0f}%' and f'{k} of {n} compensated'
paps_update_kpis(district, sector, site) ==
    LET df == paps_get_df(district, sector, site)
        n  == Len(df.rows)
        k  == count(df.rows, "compensation_received", "Yes")
    IN  IF empty(df) THEN [kind |-> "dashes", cards |-> 6]
        ELSE [kind |-> "kpis", rows |-> n,
              comp_value |-> fmt0(100 * k, n),
              comp_sub   |-> <<k, n>>]

\* grc_page.update_kpis on a subset with rows: the Resolution Rate card shows
\* f'{avg_res:.0f}%' and f'{resolved} complaints resolved'
grc_update_kpis(district, sector, cell) ==
    LET df        == grc_get_df(district, sector, cell)
        active_df == SelectSeq(df.rows, LAMBDA r : r.complaints_received > 0)
        avg_res   == IF Len(active_df) > 0
                     THEN Times(sum([i \in 1..Len(active_df) |->
                                       active_df[i].resolution_rate]),
                                <<1, Len(active_df)>>)
                     ELSE <<0, 1>>
    IN  [kind |-> "kpis", rows |-> Len(df.rows),
         received |-> sum([i \in 1..Len(df.rows) |->
                             <<df.rows[i].complaints_received, 1>>])[1],
         resolved |-> sum([i \in 1..Len(df.rows) |->
                             <<df.rows[i].complaints_resolved, 1>>])[1],
         avg_res  |-> avg_res,
         res_value |-> fmt0(avg_res[1], avg_res[2])]

\* sort_values(by, ascending=True) of a few rows: the positions of the keys
\* in ascending order, equal keys in the order they had
argsort(keys) ==
    [k \in DOMAIN keys |->
       CHOOSE i \in DOMAIN keys :
          Cardinality({j \in DOMAIN keys :
                         \/ Less(keys[j], keys[i])
                         \/ keys[j] = keys[i] /\ j < i}) + 1 = k]

\* int(x) of a number that is not NaN
int(x) == x[1] \div x[2]

\* contractors_page.incidents on a subset with rows: one bar per row, of
\* length inc_count_plot and with the text inc_label, in ascending order of
\* length; float(NaN) is NaN, which fillna(0.5) replaces
contractors_incidents(site, company) ==
    LET df == contractors_get_df(site, company)
        inc_count_plot ==
            [i \in DOMAIN df.rows |->
               LET r == df.rows[i] IN
               IF r.incidents_occurred = "Yes"
               THEN (IF r.incidents_count = nan THEN <<1, 2>>
                     ELSE r.incidents_count)
               ELSE <<0, 1>>]
        inc_label ==
            [i \in DOMAIN df.rows |->
               LET r == df.rows[i] IN
               IF r.incidents_occurred = "Yes" /\ r.incidents_count # nan
               THEN [text |-> "incident(s)", n |-> int(r.incidents_count)]
               ELSE IF r.incidents_occurred = "Yes"
               THEN [text |-> "Incident (n/a)"]
               ELSE [text |-> "None"]]
        order == argsort(inc_count_plot)
    IN  [kind |-> "figure", rows |-> Len(df.rows),
         x    |-> [k \in DOMAIN order |-> inc_count_plot[order[k]]],
         text |-> [k \in DOMAIN order |-> inc_label[order[k]]]]

\* the Incidents cell of scoring_table:
\* f"{int(r['incidents_count'])} incidents" if r['incidents_occurred'] == 'Yes'
\* else '✓ None'; int(NaN) raises ValueError
incidents_cell(r) ==
    IF r.incidents_occurred = "Yes"
    THEN (IF r.incidents_count = nan THEN Raise("ValueError")
          ELSE [text |-> "incidents", n |-> int(r.incidents_count)])
    ELSE [text |-> "None"]

\* contractors_page.scoring_table on a subset with rows: one table row per
\* row of the subset, or the exception met while building one
contractors_scoring_table(site, company) ==
    LET df    == contractors_get_df(site, company)
        cells == [i \in DOMAIN df.rows |-> incidents_cell(df.rows[i])]
    IN  IF \E i \in DOMAIN cells : cells[i] = Raise("ValueError")
        THEN Raise("ValueError")
        ELSE [kind |-> "rendered", rows |-> Len(df.rows), incidents |-> cells]

\* district_page.update_kpis on a subset with rows: the Compensation Rate
\* card shows f'{weighted_comp:.0f}%'
district_update_kpis(district, site) ==
    LET df == district_get_df(district, site)
        households == sum([i \in 1..Len(df.rows) |->
                             <<df.rows[i].households_affected, 1>>])[1]
        weighted_comp ==
            IF households > 0
            THEN Times(sum([i \in 1..Len(df.rows) |->
                              Times(df.rows[i].compensation_rate,
                                    <<df.rows[i].households_affected, 1>>)]),
                       <<1, households>>)
            ELSE <<0, 1>>
    IN  [kind |-> "kpis", rows |-> Len(df.rows),
         households |-> households,
         weighted_comp |-> weighted_comp,
         comp_value |-> fmt0(weighted_comp[1], weighted_comp[2])]

\* the critical banner raised for an anomalous row as well
district_alerts_both(df) ==
    LET idx == [i \in 1..Len(df.rows) |-> i]
        Banners(kind, Test(_)) ==
            LET hit == SelectSeq(idx, LAMBDA i : Test(df.rows[i]))
            IN  [k \in 1..Len(hit) |-> [kind |-> kind, row |-> hit[k]]]
        anomaly(r)  == r.comp_anomaly = TRUE
        critical(r) == Less(r.compensation_rate, <<30, 1>>)
        missing(r)  == 9 - r.INST_COLS >= 3
        no_staff(r) == r.staff_env_specialist = 0
                         /\ r.staff_social_specialist = 0
    IN  Banners("anomaly", anomaly) \o Banners("critical", critical)
          \o Banners("instruments", missing) \o Banners("no_staff", no_staff)

\* the banners of district_page.update_alerts for the rows of df, each with
\* the position of its row in df: anomalies, critical rates, missing
\* instruments, no staff, in this order
district_alerts(df) ==
    LET idx == [i \in 1..Len(df.rows) |-> i]
        Banners(kind, Test(_)) ==
            LET hit == SelectSeq(idx, LAMBDA i : Test(df.rows[i]))
            IN  [k \in 1..Len(hit) |-> [kind |-> kind, row |-> hit[k]]]
        anomaly(r)  == r.comp_anomaly = TRUE
        critical(r) == Less(r.compensation_rate, <<30, 1>>) /\ ~r.comp_anomaly
        missing(r)  == 9 - r.INST_COLS >= 3
        no_staff(r) == r.staff_env_specialist = 0
                         /\ r.staff_social_specialist = 0
    IN  Banners("anomaly", anomaly) \o Banners("critical", critical)
          \o Banners("instruments", missing) \o Banners("no_staff", no_staff)

\* the message of an unguarded callback when its selection of rows is empty
CheckText(cb) ==
    CASE cb = <<"paps", "update_uncomp_table">> ->
             "All PAPs in this selection have received compensation."
      [] cb = <<"workers", "zero_training_table">> ->
             "All workers in this selection have received at least one training."
      [] cb = <<"grc", "pending_reasons">> ->
             "No pending complaints in this selection."
      [] cb = <<"district", "pending_reasons">> ->
             "No pending households."

\* the column an unguarded callback reads first, and the rows it keeps
FirstColumn(cb) ==
    CASE cb = <<"paps", "update_uncomp_table">>    -> "compensation_received"
      [] cb = <<"workers", "zero_training_table">> -> "training_count"
      [] cb = <<"grc", "pending_reasons">>         -> "pending_reason"
      [] cb = <<"district", "pending_reasons">>    -> "not_compensated_reason"
      [] cb = <<"district", "update_alerts">>      -> "comp_anomaly"

Keeps(cb, r) ==
    CASE cb = <<"paps", "update_uncomp_table">>    -> r.compensation_received = "No"
      [] cb = <<"workers", "zero_training_table">> -> r.training_count = 0
      [] cb = <<"grc", "pending_reasons">>         -> r.pending_reason # NaN
      [] cb = <<"district", "pending_reasons">>    -> r.not_compensated_reason # NaN

unguarded(cb, df) ==
    IF FirstColumn(cb) \notin df.cols THEN Raise("KeyError")
    ELSE IF cb = <<"district", "update_alerts">>
    THEN \* return alerts if alerts else html.Span()
         IF district_alerts(df) = <<>> THEN EmptySpan
         ELSE [kind |-> "alerts", alerts |-> district_alerts(df)]
    ELSE LET kept == SelectSeq(df.rows, LAMBDA r : Keeps(cb, r)) IN
         IF kept = <<>> THEN Check(CheckText(cb)) ELSE Rendered(Len(kept))

\* the columns a callback assigns on the frame get_df gave it
Assigns(cb) ==
    CASE cb = <<"workers", "age_gender">>   -> {"age_group"}
      [] cb = <<"workers", "grm_contract">> -> {"knows_grc"}
      [] OTHER                       -> {}

\* an output callback on arguments a: what it returns, and the frame it holds
\* when it returns
run_output(cb, a) ==
    LET df == get_df(PageOf(cb), a) IN
    IF df.raised # "none" THEN [ret |-> Raise(df.raised), df |-> df]
    ELSE IF cb \in UnguardedCallbacks
    THEN [ret |-> unguarded(cb, df), df |-> df]
    ELSE IF empty(df)
    THEN [ret |-> CASE cb \in FigureCallbacks -> EmptyFigure
                    [] cb \in KpiCallbacks    -> [kind |-> "dashes", cards |-> 6]
                    [] cb \in DashCallbacks   -> Text(DASH)
                    [] cb = <<"district", "instruments_heatmap">> -> Text("No data.")
                    [] cb = <<"district", "scoring_table">>       -> Text("No data.")
                    [] OTHER -> Text("No data available."),
          df  |-> df]
    ELSE [ret |-> CASE cb = <<"paps", "update_kpis">> ->
                         paps_update_kpis(a[1], a[2], a[3])
                    [] cb = <<"grc", "update_kpis">> ->
                         grc_update_kpis(a[1], a[2], a[3])
                    [] cb = <<"district", "update_kpis">> ->
                         district_update_kpis(a[1], a[2])
                    [] cb = <<"contractors", "incidents">> ->
                         contractors_incidents(a[1], a[2])
                    [] cb = <<"contractors", "scoring_table">> ->
                         contractors_scoring_table(a[1], a[2])
                    [] cb \in KpiCallbacks    -> [kind |-> "kpis",
                                                  rows |-> Len(df.rows)]
                    [] cb \in FigureCallbacks -> Figure(Len(df.rows))
                    [] OTHER                  -> Rendered(Len(df.rows)),
          df  |-> [df EXCEPT !.cols = @ \cup Assigns(cb)]]

-----------------------------------------------------------------------------
(* executive_summary.py: the metrics, the gauge and the alerts *)

\* executive_summary.compute_metrics on tables that all have rows: the
\* entries of M the gauge, the cards and the alerts read
compute_metrics(t) ==
    LET paps    == t["PAPs"].rows
        workers == t["workers"].rows
        contr   == t["contractors"].rows
        grc     == t["GRC"].rows
        dist    == t["district"].rows
        paps_comp  == Len(SelectSeq(paps, LAMBDA r :
                              r.compensation_received = "Yes"))
        w_trained  == Len(SelectSeq(workers, LAMBDA r : r.training_count > 0))
        c_incident == Len(SelectSeq(contr, LAMBDA r :
                              r.incidents_occurred = "Yes"))
        g_complaints == sum([i \in 1..Len(grc) |->
                               <<grc[i].complaints_received, 1>>])[1]
        g_resolved   == sum([i \in 1..Len(grc) |->
                               <<grc[i].complaints_resolved, 1>>])[1]
        d_hh == sum([i \in 1..Len(dist) |->
                       <<dist[i].households_affected, 1>>])[1]
        known == SelectSeq(dist, LAMBDA r : r.compensation_progress # nan)
    IN  [paps_total |-> Len(paps), paps_comp |-> paps_comp,
         paps_comp_pct |-> Frac(100 * paps_comp, Len(paps)),
         w_total |-> Len(workers), w_trained |-> w_trained,
         w_trained_pct |-> Frac(100 * w_trained, Len(workers)),
         c_total |-> Len(contr), c_incident |-> c_incident,
         c_incident_pct |-> Frac(100 * c_incident, Len(contr)),
         g_complaints |-> g_complaints, g_resolved |-> g_resolved,
         g_res_rate |-> IF g_complaints > 0
                        THEN Frac(100 * g_resolved, g_complaints)
                        ELSE <<0, 1>>,
         d_hh |-> d_hh,
         d_comp_rate |->
             IF d_hh > 0
             THEN Times(sum([i \in 1..Len(known) |->
                               Times(known[i].compensation_progress,
                                     <<known[i].households_affected, 1>>)]),
                        <<1, d_hh>>)
             ELSE <<0, 1>>,
         chk_comply |-> <<100, 1>>,
         chk_comp_pct |-> <<t["checklist"].rows[1].compensation_progress_pct,
                            1>>]

\* executive_summary._project_score_gauge: the six dimensions, their weighted
\* sum, and the number of tenths round(score, 1) shows
_project_score_gauge(M) ==
    LET weights == <<<<30, 100>>, <<15, 100>>, <<15, 100>>, <<15, 100>>,
                     <<15, 100>>, <<10, 100>>>>
        dims == <<M.paps_comp_pct, M.w_trained_pct,
                  Plus(<<100, 1>>,
                       <<-M.c_incident_pct[1], M.c_incident_pct[2]>>),
                  M.g_res_rate, clip_upper(M.d_comp_rate, 100),
                  M.chk_comply>>
        score == sum([i \in 1..6 |-> Times(weights[i], dims[i])])
    IN  [dims |-> dims, score |-> score,
         tenths |-> fmt0(10 * score[1], score[2])]

\* the tick of executive_summary._build_alerts
NoCriticalAlerts == [kind |-> "check", text |-> "No critical alerts"]

\* executive_summary._build_alerts: the alert rows, a district alert with the
\* position of its row in DISTRICT
_build_alerts(t, M) ==
    LET dist == t["district"].rows
        idx  == [i \in 1..Len(dist) |-> i]
        anomaly == SelectSeq(idx, LAMBDA i :
                       dist[i].not_yet_compensated_count
                           > dist[i].households_affected)
        critical == SelectSeq(idx, LAMBDA i :
                       /\ dist[i].compensation_progress # nan
                       /\ Less(dist[i].compensation_progress, <<30, 1>>)
                       /\ dist[i].not_yet_compensated_count
                             <= dist[i].households_affected)
        gbv_trained == Len(SelectSeq(t["workers"].rows, LAMBDA r :
                               r.train_gbv = 1))
        unresolved_paps == Len(SelectSeq(t["PAPs"].rows, LAMBDA r :
                                   r.grievance_resolved = "Not resolved"))
        alerts ==
            [k \in 1..Len(anomaly) |-> [kind |-> "anomaly", row |-> anomaly[k]]]
            \o [k \in 1..Len(critical) |->
                  [kind |-> "critical", row |-> critical[k]]]
            \o (IF ~Less(M.c_incident_pct, <<70, 1>>)
                THEN <<[kind |-> "incidents"]>> ELSE <<>>)
            \o (IF M.w_total - M.w_trained > 0
                THEN <<[kind |-> "untrained"]>> ELSE <<>>)
            \o (IF 2 * gbv_trained < Len(t["workers"].rows)
                THEN <<[kind |-> "gbv"]>> ELSE <<>>)
            \o (IF unresolved_paps > 5
                THEN <<[kind |-> "unresolved"]>> ELSE <<>>)
            \o <<[kind |-> "checklist"]>>
    IN  IF alerts # <<>> THEN [kind |-> "alerts", alerts |-> alerts]
        ELSE NoCriticalAlerts

-----------------------------------------------------------------------------
(* app_v2.py: routes, layouts and the callback graph *)

NAV == << <<"/", "Executive Summary">>,
          <<"/paps", "Project Affected Persons">>,
          <<"/workers", "Workers">>,
          <<"/contractors", "Contractors">>,
          <<"/grc", "Grievance Committees">>,
          <<"/district", "District Monitoring">>,
          <<"/checklist", "Site Audit - Checklist">>,
          <<"/crossanalysis", "Cross Analysis">> >>

NavPaths == {NAV[i][1] : i \in 1..Len(NAV)}

\* the pathnames a browser can send: the routes, a path that is no route,
\* and no path at all
Pathnames == NavPaths \cup {"/unknown", None}

\* the chain without its last elif
render_short(p) ==
    CASE p = "/paps"          -> "paps"
      [] p = "/workers"       -> "workers"
      [] p = "/contractors"   -> "contractors"
      [] p = "/grc"           -> "grc"
      [] p = "/district"      -> "district"
      [] p = "/checklist"     -> "checklist"
      [] OTHER                -> "exec"

\* render: the page whose layout() it returns
render(p) ==
    CASE p = "/paps"          -> "paps"
      [] p = "/workers"       -> "workers"
      [] p = "/contractors"   -> "contractors"
      [] p = "/grc"           -> "grc"
      [] p = "/district"      -> "district"
      [] p = "/checklist"     -> "checklist"
      [] p = "/crossanalysis" -> "cross"
      [] OTHER                -> "exec"

\* is_active without its second disjunct
update_sidebar_exact(p) ==
    LET current == IF Truthy(p) THEN p ELSE "/" IN
    {path \in NavPaths : current = path}

\* update_sidebar: the NAV paths whose link gets the active style
update_sidebar(p) ==
    LET current == IF Truthy(p) THEN p ELSE "/" IN
    {path \in NavPaths :
        \/ current = path
        \/ path = "/" /\ current \notin (NavPaths \ {"/"})}

FilteredPages == {"paps", "workers", "contractors", "grc", "district"}

\* the dropdowns of filter_bar(), parent first
PageFilters(pg) ==
    CASE pg = "paps"        -> <<"paps-district-filter", "paps-sector-filter",
                                 "paps-site-filter">>
      [] pg = "workers"     -> <<"workers-site-filter", "workers-role-filter",
                                 "workers-gender-filter">>
      [] pg = "contractors" -> <<"contr-site-filter", "contr-company-filter">>
      [] pg = "grc"         -> <<"grc-district-filter", "grc-sector-filter",
                                 "grc-cell-filter">>
      [] pg = "district"    -> <<"dist-district-filter", "dist-site-filter">>
      [] OTHER              -> <<>>

\* the column each dropdown filters, in the order of PageFilters
FilterColumns(pg) ==
    CASE pg = "paps"        -> <<"district", "sector", "site_name">>
      [] pg = "workers"     -> <<"site_name", "role", "gender">>
      [] pg = "contractors" -> <<"site_name", "company_clean">>
      [] pg = "grc"         -> <<"district", "sector", "cell">>
      [] pg = "district"    -> <<"district_name", "site_name">>
      [] OTHER              -> <<>>

\* the module-level table of a page
PageTable(pg) ==
    CASE pg = "paps"        -> PAPS
      [] pg = "workers"     -> WORKERS
      [] pg = "contractors" -> CONTRACTORS
      [] pg = "grc"         -> GRC
      [] pg = "district"    -> DIST
      [] pg = "checklist"   -> CHK
      [] OTHER              -> DataFrame

CsvName(pg) ==
    CASE pg = "paps"        -> "PAPs_clean.csv"
      [] pg = "workers"     -> "workers_clean.csv"
      [] pg = "contractors" -> "contractors_clean.csv"
      [] pg = "grc"         -> "GRC_clean.csv"
      [] pg = "district"    -> "district_clean.csv"
      [] pg = "checklist"   -> "checklist_clean.csv"

\* the cascade callbacks: Input dropdowns in order, and the dropdown whose
\* options and value they return
CascadeCallbacks ==
    {<<"paps", "update_sector_options">>, <<"paps", "update_site_options">>,
     <<"workers", "update_role_options">>,
     <<"workers", "update_gender_options">>,
     <<"contractors", "update_company_options">>,
     <<"grc", "update_sector_options">>, <<"grc", "update_cell_options">>,
     <<"district", "update_site_options">>}

\* position in PageFilters of the dropdown a cascade callback writes
CascadeChild(cb) ==
    IF cb[2] \in {"update_sector_options", "update_role_options",
                  "update_company_options"} THEN 2
    ELSE IF cb[1] = "district" THEN 2 ELSE 3

\* Input(...) of a callback, as dropdown ids in argument order
Inputs(cb) ==
    IF cb \in CascadeCallbacks
    THEN SubSeq(PageFilters(cb[1]), 1, CascadeChild(cb) - 1)
    ELSE PageFilters(cb[1])

\* Output(...) dropdowns of a callback
OutputDropdowns(cb) ==
    IF cb \in CascadeCallbacks
    THEN {PageFilters(cb[1])[CascadeChild(cb)]}
    ELSE {}

cascade(cb, a) ==
    CASE cb = <<"paps", "update_sector_options">> ->
             paps_update_sector_options(a[1])
      [] cb = <<"paps", "update_site_options">> ->
             paps_update_site_options(a[1], a[2])
      [] cb = <<"workers", "update_role_options">> ->
             workers_update_role_options(a[1])
      [] cb = <<"workers", "update_gender_options">> ->
             workers_update_gender_options(a[1], a[2])
      [] cb = <<"contractors", "update_company_options">> ->
             contractors_update_company_options(a[1])
      [] cb = <<"grc", "update_sector_options">> ->
             grc_update_sector_options(a[1])
      [] cb = <<"grc", "update_cell_options">> ->
             grc_update_cell_options(a[1], a[2])
      [] cb = <<"district", "update_site_options">> ->
             district_update_site_options(a[1])

\* the first dropdown is created with the value the first dropdown of the
\* last page held, when that is one of its options
filter_bar_persist(pg) ==
    LET ids == PageFilters(pg)
        top == FilterColumns(pg)[1]
        T   == PageTable(pg)
        o   == IF ~empty(T)
               THEN <<ALL>> \o Sorted({r[top] : r \in Range(T.rows)})
               ELSE <<ALL>>
    IN  [options |-> [i \in 1..Len(ids) |-> IF i = 1 THEN o ELSE <<ALL>>],
         value   |-> [i \in 1..Len(ids) |->
                        IF i = 1 /\ sel # <<>> /\ sel[1] \in Range(o)
                        THEN sel[1] ELSE ALL]]

\* filter_bar(): the options and the value each dropdown is created with
filter_bar(pg) ==
    LET ids == PageFilters(pg)
        top == FilterColumns(pg)[1]
        T   == PageTable(pg)
    IN  [options |-> [i \in 1..Len(ids) |->
                        IF i = 1 /\ ~empty(T)
                        THEN <<ALL>> \o Sorted({r[top] : r \in Range(T.rows)})
                        ELSE <<ALL>>],
         value   |-> [i \in 1..Len(ids) |-> ALL]]

\* the callbacks whose outputs a page lays out
PageCallbacks(pg) ==
    {cb \in CascadeCallbacks \cup OutputCallbacks : cb[1] = pg}

\* layout() without its test of TABLE.empty
layout_unguarded(pg) ==
    [page |-> pg, kind |-> "full", text |-> "",
     dropdowns |-> Range(PageFilters(pg)),
     outputs   |-> {cb \in OutputCallbacks : cb[1] = pg}]

\* layout(): the placeholder sentence alone, or the full page with its
\* dropdowns and the output components of its callbacks
layout(pg) ==
    IF pg \in FilteredPages \cup {"checklist"} /\ empty(PageTable(pg))
    THEN [page |-> pg, kind |-> "placeholder",
          text |-> CsvName(pg) \o " not found.",
          dropdowns |-> {}, outputs |-> {}]
    ELSE [page |-> pg, kind |-> "full", text |-> "",
          dropdowns |-> Range(PageFilters(pg)),
          outputs   |-> {cb \in OutputCallbacks : cb[1] = pg}]

-----------------------------------------------------------------------------
(* The running application: Dash runs render and update_sidebar when the    *)
(* pathname changes, the callbacks of a page when its layout is created or  *)
(* one of their Inputs changes, and holds a callback back while a pending   *)
(* callback still has one of its Inputs to write.                           *)

AppCallbacks == {<<"app", "render">>, <<"app", "update_sidebar">>}

\* the output callbacks whose results the behaviours record; the others of
\* the page have the same Inputs and are run one by one under SpecCall
Watched ==
    {<<"paps", "update_kpis">>, <<"paps", "update_uncomp_table">>,
     <<"workers", "age_gender">>, <<"workers", "zero_training_table">>,
     <<"contractors", "update_kpis">>, <<"contractors", "scoring_table">>,
     <<"grc", "update_kpis">>, <<"grc", "pending_reasons">>,
     <<"district", "update_alerts">>, <<"district", "comp_rate">>}

Tracked(pg) == {cb \in CascadeCallbacks \cup Watched : cb[1] = pg}

Position(pg, id) == CHOOSE i \in 1..Len(PageFilters(pg)) : PageFilters(pg)[i] = id

\* the values of the Inputs of a callback, in argument order
Args(cb) ==
    [i \in 1..Len(Inputs(cb)) |-> sel[Position(cb[1], Inputs(cb)[i])]]

\* only the first Input of a callback triggers it, the others read as State
Dependents_first(pg, id) == {cb \in Tracked(pg) : Inputs(cb)[1] = id}

\* the callbacks of the page that have dropdown id among their Inputs
Dependents(pg, id) == {cb \in Tracked(pg) : id \in Range(Inputs(cb))}

Ready(cb) ==
    \A other \in pending \ {cb} :
        OutputDropdowns(other) \cap Range(Inputs(cb)) = {}

Unset == [args |-> <<>>, ret |-> [kind |-> "unset"]]

Running == phase = "running"

\* the user acts on a settled page: a request is answered before the next
Settled == Running /\ pending = {}

start_app ==
    /\ Importing(8)
    /\ phase' = "running"
    /\ \E p \in Pathnames : pathname' = p
    /\ pending' = AppCallbacks
    /\ UNCHANGED <<files, imported, error, tables, content, sel, opts, out,
                   sidebar, call>>

navigate(p) ==
    /\ Settled
    /\ p # pathname
    /\ pathname' = p
    /\ pending' = AppCallbacks
    /\ UNCHANGED <<files, phase, imported, error, tables, content, sel, opts,
                   out, sidebar, call>>

render_callback ==
    /\ Running
    /\ <<"app", "render">> \in pending
    /\ LET pg == render(pathname)
           L  == layout(pg)
           fb == filter_bar(pg)
       IN  /\ content' = L
           /\ sel'  = IF L.kind = "full" THEN fb.value ELSE <<>>
           /\ opts' = IF L.kind = "full" THEN fb.options ELSE <<>>
           /\ out'  = [cb \in Watched \cap L.outputs |-> Unset]
           /\ pending' = (pending \cap {<<"app", "update_sidebar">>})
                           \cup (IF L.kind = "full" THEN Tracked(pg) ELSE {})
    /\ UNCHANGED <<files, phase, imported, error, tables, pathname, sidebar,
                   call>>

sidebar_callback ==
    /\ Running
    /\ <<"app", "update_sidebar">> \in pending
    /\ sidebar' = update_sidebar(pathname)
    /\ pending' = pending \ {<<"app", "update_sidebar">>}
    /\ UNCHANGED <<files, phase, imported, error, tables, pathname, content,
                   sel, opts, out, call>>

\* the user picks an option of dropdown i of the page
select(i, v) ==
    /\ Settled
    /\ content.kind = "full"
    /\ i \in DOMAIN sel
    /\ v \in Range(opts[i])
    /\ v # sel[i]
    /\ sel' = [sel EXCEPT ![i] = v]
    /\ pending' = Dependents(content.page, PageFilters(content.page)[i])
    /\ UNCHANGED <<files, phase, imported, error, tables, pathname, content,
                   opts, out, sidebar, call>>

cascade_callback(cb) ==
    /\ Running
    /\ cb \in pending \cap CascadeCallbacks
    /\ Ready(cb)
    /\ LET r == cascade(cb, Args(cb))
           c == CascadeChild(cb)
       IN  IF r.kind = "raise"
           THEN /\ pending' = pending \ {cb}
                /\ UNCHANGED <<sel, opts>>
           ELSE /\ opts' = [opts EXCEPT ![c] = r.options]
                /\ sel'  = [sel EXCEPT ![c] = r.value]
                /\ pending' = (pending \ {cb})
                      \cup Dependents(cb[1], PageFilters(cb[1])[c])
    /\ UNCHANGED <<files, phase, imported, error, tables, pathname, content,
                   out, sidebar, call>>

\* the table of the page after the callback: the frame it assigned columns on
\* is the table itself when it is not a copy
AfterOutput(cb, T, df) ==
    IF df.shared THEN [T EXCEPT !.cols = df.cols] ELSE T

output_callback(cb) ==
    /\ Running
    /\ cb \in pending \cap Watched
    /\ Ready(cb)
    /\ LET r == run_output(cb, Args(cb))
       IN  /\ out' = [out EXCEPT ![cb] = [args |-> Args(cb), ret |-> r.ret]]
           /\ PAPS' = IF cb[1] = "paps" THEN AfterOutput(cb, PAPS, r.df)
                      ELSE PAPS
           /\ WORKERS' = IF cb[1] = "workers"
                         THEN AfterOutput(cb, WORKERS, r.df) ELSE WORKERS
           /\ CONTRACTORS' = IF cb[1] = "contractors"
                             THEN AfterOutput(cb, CONTRACTORS, r.df)
                             ELSE CONTRACTORS
           /\ GRC' = IF cb[1] = "grc" THEN AfterOutput(cb, GRC, r.df) ELSE GRC
           /\ DIST' = IF cb[1] = "district" THEN AfterOutput(cb, DIST, r.df)
                      ELSE DIST
    /\ pending' = pending \ {cb}
    /\ UNCHANGED <<files, phase, imported, error, CHK, ES, CA, pathname,
                   content, sel, opts, sidebar, call>>

Next ==
    \/ import_paps_page
    \/ import_workers_page
    \/ import_contractors_page
    \/ import_grc_page
    \/ import_district_page
    \/ import_checklist_page
    \/ import_executive_summary
    \/ import_cross_analysis
    \/ start_app
    \/ \E p \in Pathnames : navigate(p)
    \/ render_callback
    \/ sidebar_callback
    \/ \E i \in 1..3, v \in Names : select(i, v)
    \/ \E cb \in CascadeCallbacks : cascade_callback(cb)
    \/ \E cb \in Watched : output_callback(cb)

Spec == Init /\ [][Next]_vars

-----------------------------------------------------------------------------
(* The functions called one at a time: the page modules are loaded and a    *)
(* callback, get_df, layout, render or update_sidebar is invoked with a     *)
(* chosen argument; `call` records the invocation and what came back.       *)

\* the values a Dash dropdown or a direct caller can pass for filter i
ArgValues(i) ==
    {None, "", ALL}
        \cup (CASE i = 1 -> K1 \cup {"Nowhere"}
               [] i = 2 -> K2 \ {NaN}
               [] i = 3 -> K3)

ArgTuples(n) == {a \in [1..n -> Names \cup {None}] :
                    \A i \in 1..n : a[i] \in ArgValues(i)}

\* the selections the output callbacks other than paps update_kpis are
\* called on
FewArgs(n) ==
    {a \in ArgTuples(n) :
        \/ \A i \in 1..n : a[i] = ALL
        \/ a[1] \in {"Gasabo", "Nowhere"} /\ \A i \in 2..n : a[i] = ALL
        \/ a[1] = ALL /\ a[2] = "Cyuve" /\ \A i \in 3..n : a[i] = "East"}

\* the surveys of at most n distinct rows of one district
CallSurveys(n) == {Range(s) : s \in SeqsUpTo({"Gasabo"} \X K2 \X K3, n)}

InitCall ==
    /\ files \in FileSystems(MaxRows)
                 \cup {FileSystem(SeqOf(survey), "Gasabo", {}, {}) :
                         survey \in CallSurveys(CallRows)}
    /\ phase = "called"
    /\ imported = 6
    /\ error = "none"
    /\ PAPS = load_paps(files)
    /\ WORKERS = load_workers(files)
    /\ CONTRACTORS = load_contractors(files)
    /\ GRC = load_grc(files)
    /\ DIST = load_district(files)
    /\ CHK = load_checklist(files)
    /\ ES = [d \in Datasets |-> DataFrame]
    /\ CA = [d \in Datasets |-> DataFrame]
    /\ NoPage
    /\ call = NoCall

\* one invocation at a time: the next one starts when the last has returned
Idle == phase = "called" /\ call = NoCall

call_get_df(pg, a) ==
    /\ Idle
    /\ call' = [fn |-> "get_df", page |-> pg, args |-> a,
                df |-> get_df(pg, a)]
    /\ UNCHANGED <<files, phase, imported, error, tables, ui>>

call_cascade(cb, a) ==
    /\ Idle
    /\ call' = [fn |-> "cascade", cb |-> cb, args |-> a,
                ret |-> cascade(cb, a)]
    /\ UNCHANGED <<files, phase, imported, error, tables, ui>>

call_output(cb, a) ==
    /\ Idle
    /\ LET r == run_output(cb, a)
       IN  /\ call' = [fn |-> "output", cb |-> cb, args |-> a,
                       ret |-> r.ret, df |-> r.df]
           /\ PAPS' = IF cb[1] = "paps" THEN AfterOutput(cb, PAPS, r.df)
                      ELSE PAPS
           /\ WORKERS' = IF cb[1] = "workers"
                         THEN AfterOutput(cb, WORKERS, r.df) ELSE WORKERS
           /\ CONTRACTORS' = IF cb[1] = "contractors"
                             THEN AfterOutput(cb, CONTRACTORS, r.df)
                             ELSE CONTRACTORS
           /\ GRC' = IF cb[1] = "grc" THEN AfterOutput(cb, GRC, r.df) ELSE GRC
           /\ DIST' = IF cb[1] = "district" THEN AfterOutput(cb, DIST, r.df)
                      ELSE DIST
    /\ UNCHANGED <<files, phase, imported, error, CHK, ES, CA, ui>>

call_layout(pg) ==
    /\ Idle
    /\ call' = [fn |-> "layout", page |-> pg, ret |-> layout(pg)]
    /\ UNCHANGED <<files, phase, imported, error, tables, ui>>

call_render(p) ==
    /\ Idle
    /\ call' = [fn |-> "render", pathname |-> p, ret |-> render(p)]
    /\ UNCHANGED <<files, phase, imported, error, tables, ui>>

call_update_sidebar(p) ==
    /\ Idle
    /\ call' = [fn |-> "update_sidebar", pathname |-> p,
                ret |-> update_sidebar(p)]
    /\ UNCHANGED <<files, phase, imported, error, tables, ui>>

call_return ==
    /\ phase = "called"
    /\ call # NoCall
    /\ call' = NoCall
    /\ UNCHANGED <<files, phase, imported, error, tables, ui>>

NextCall ==
    \/ \E pg \in FilteredPages :
         \E a \in ArgTuples(Len(PageFilters(pg))) : call_get_df(pg, a)
    \/ \E cb \in CascadeCallbacks :
         \E a \in ArgTuples(Len(Inputs(cb))) : call_cascade(cb, a)
    \/ \E cb \in OutputCallbacks :
         \E a \in IF cb = <<"paps", "update_kpis">>
                  THEN ArgTuples(Len(PageFilters(cb[1])))
                  ELSE FewArgs(Len(PageFilters(cb[1]))) : call_output(cb, a)
    \/ \E pg \in FilteredPages \cup {"checklist"} : call_layout(pg)
    \/ \E p \in Pathnames : call_render(p)
    \/ \E p \in Pathnames : call_update_sidebar(p)
    \/ call_return

SpecCall == InitCall /\ [][NextCall]_vars

-----------------------------------------------------------------------------
(* The same invocations on tables whose figures vary: the page modules and  *)
(* the Executive Summary are loaded from the same files.                    *)

InitData ==
    /\ files \in FigureSystems(FigRows)
    /\ phase = "called"
    /\ imported = 7
    /\ error = "none"
    /\ PAPS = load_paps(files)
    /\ WORKERS = load_workers(files)
    /\ CONTRACTORS = load_contractors(files)
    /\ GRC = load_grc(files)
    /\ DIST = load_district(files)
    /\ CHK = load_checklist(files)
    /\ ES = load_all(files)
    /\ CA = [d \in Datasets |-> DataFrame]
    /\ NoPage
    /\ call = NoCall

\* the callbacks that show figures derived from the numbers of the rows
ScoreCallbacks ==
    {<<"contractors", "scoring_table">>, <<"contractors", "incidents">>,
     <<"grc", "update_kpis">>, <<"district", "update_kpis">>,
     <<"district", "update_alerts">>}

call_compute_metrics ==
    /\ Idle
    /\ call' = [fn |-> "compute_metrics", ret |-> compute_metrics(ES)]
    /\ UNCHANGED <<files, phase, imported, error, tables, ui>>

call_project_score_gauge ==
    /\ Idle
    /\ call' = [fn |-> "_project_score_gauge",
                ret |-> _project_score_gauge(compute_metrics(ES))]
    /\ UNCHANGED <<files, phase, imported, error, tables, ui>>

call_build_alerts ==
    /\ Idle
    /\ call' = [fn |-> "_build_alerts",
                ret |-> _build_alerts(ES, compute_metrics(ES))]
    /\ UNCHANGED <<files, phase, imported, error, tables, ui>>

NextData ==
    \/ \E cb \in ScoreCallbacks :
         \E a \in FewArgs(Len(PageFilters(cb[1]))) : call_output(cb, a)
    \/ call_compute_metrics
    \/ call_project_score_gauge
    \/ call_build_alerts
    \/ call_return

SpecData == InitData /\ [][NextData]_vars

-----------------------------------------------------------------------------
(* What the properties below are stated with, computed from the tables and  *)
(* not through the operators of the pages                                   *)

\* a selection that narrows the rows
Restricts(v) == v \notin {None, "", ALL}

\* the rows of the table of pg that carry a[i] in filter column i wherever
\* a[i] satisfies R
RowsWhere(pg, a, R(_)) ==
    LET T == PageTable(pg) IN
    IF T.cols = {} THEN <<>>
    ELSE SelectSeq(T.rows, LAMBDA r :
            \A i \in 1..Len(a) : R(a[i]) => r[FilterColumns(pg)[i]] = a[i])

Matching(pg, a) == RowsWhere(pg, a, Restricts)

\* the options a cascade callback owes for parents a: ALL, then the sorted
\* distinct non-null values of its child column on the matching rows
ChildOptions(cb, a, R(_)) ==
    LET col == FilterColumns(cb[1])[CascadeChild(cb)] IN
    <<ALL>> \o Sorted({r[col] : r \in Range(RowsWhere(cb[1], a, R))} \ {NaN})

\* a full filtered page with no callback left to run
SettledPage ==
    /\ Settled
    /\ content.kind = "full"
    /\ content.page \in FilteredPages

\* C1: on a filtered page whose callbacks have all completed, every selected
\* child value is ALL or occurs in the base table on a row that carries the
\* selected values of all its parents, and get_df of the selection has a row.
C1_CascadeConsistent ==
    SettledPage =>
        LET pg   == content.page
            T    == PageTable(pg)
            cols == FilterColumns(pg)
        IN  /\ \A i \in 2..Len(sel) :
                  \/ sel[i] = ALL
                  \/ \E r \in Range(T.rows) :
                        /\ r[cols[i]] = sel[i]
                        /\ \A j \in 1..(i - 1) :
                              sel[j] = ALL \/ r[cols[j]] = sel[j]
            /\ get_df(pg, sel).raised = "none"
            /\ get_df(pg, sel).rows # <<>>

\* a child picked under a picked parent, the cascades done
C1_Witness ==
    /\ SettledPage
    /\ Len(sel) = 3
    /\ sel[1] # ALL /\ sel[2] # ALL /\ sel[3] # ALL

RestrictsUnlessNone(v) == v \notin {None, ALL}

C3_GetDfConjunction ==
    call.fn = "get_df" =>
        /\ call.df.raised = "none"
        /\ call.df.rows = Matching(call.page, call.args)
        /\ (\A i \in 1..Len(call.args) : call.args[i] = ALL)
              => call.df.rows = PageTable(call.page).rows

\* get_df with two active filters and one that is empty, some row kept and
\* some row dropped
C3_Witness ==
    /\ call.fn = "get_df"
    /\ Len(call.args) = 3
    /\ call.args[1] = "Gasabo" /\ call.args[2] = "" /\ call.args[3] = "East"
    /\ call.df.rows # <<>>
    /\ Len(call.df.rows) < Len(PageTable(call.page).rows)

\* C4: a filter-driven callback whose filtered subset is empty returns an
\* empty chart or the dash placeholder, and raises nothing.
C4_EmptySubset ==
    (call.fn = "output" /\ empty(call.df)) =>
        call.ret \in {EmptyFigure, Text(DASH), [kind |-> "dashes", cards |-> 6]}

\* C5: with a CSV file absent at start-up the application still starts.
C5_SilentFallback ==
    (\E d \in Datasets : ~files[d].exists) => phase # "crashed"

\* the file a page loads, and the sentence its layout shows without it
PageDataset(pg) ==
    CASE pg = "paps"        -> "PAPs"
      [] pg = "workers"     -> "workers"
      [] pg = "contractors" -> "contractors"
      [] pg = "grc"         -> "GRC"
      [] pg = "district"    -> "district"
      [] pg = "checklist"   -> "checklist"

NotFound(pg) ==
    CASE pg = "paps"        -> "PAPs_clean.csv not found."
      [] pg = "workers"     -> "workers_clean.csv not found."
      [] pg = "contractors" -> "contractors_clean.csv not found."
      [] pg = "grc"         -> "GRC_clean.csv not found."
      [] pg = "district"    -> "district_clean.csv not found."
      [] pg = "checklist"   -> "checklist_clean.csv not found."

\* C6: when the CSV of a page was not found, layout() of the page returns the
\* '<file>.csv not found.' sentence alone: no dropdown, no KPI, chart or table.
C6_PlaceholderOnly ==
    (call.fn = "layout" /\ ~files[PageDataset(call.page)].exists) =>
        /\ call.ret.kind = "placeholder"
        /\ call.ret.text = NotFound(call.page)
        /\ call.ret.dropdowns = {}
        /\ call.ret.outputs = {}

\* layout() of the District page called with district_clean.csv absent
C6_Witness ==
    /\ call.fn = "layout"
    /\ call.page = "district"
    /\ ~files["district"].exists
    /\ call.ret.kind = "placeholder"

\* C7: on a filtered page whose callbacks have all completed, every recorded
\* output was computed from the selection now shown, and is what its callback
\* returns for that selection.
C7_OutputsCurrent ==
    SettledPage =>
        \A cb \in DOMAIN out :
            /\ out[cb].args = sel
            /\ out[cb].ret = run_output(cb, sel).ret

\* a parent and then a child were picked, and the outputs have settled on
\* fewer rows than the table holds
C7_Witness ==
    /\ SettledPage
    /\ sel[1] # ALL /\ sel[2] # ALL
    /\ \E cb \in DOMAIN out :
          /\ out[cb].ret.kind = "kpis"
          /\ out[cb].ret.rows < Len(PageTable(content.page).rows)

\* C8: while the application runs, every table holds the rows and columns it
\* was given at start-up.
C8_TablesUnchanged ==
    Running =>
        /\ PAPS = load_paps(files)
        /\ WORKERS = load_workers(files)
        /\ CONTRACTORS = load_contractors(files)
        /\ GRC = load_grc(files)
        /\ DIST = load_district(files)
        /\ CHK = load_checklist(files)
        /\ ES = load_all(files)
        /\ CA = cross_load(files)

\* the Workers page has run age_gender, which assigns a column on its frame,
\* on the unfiltered selection
C8_Witness ==
    /\ SettledPage
    /\ content.page = "workers"
    /\ out[<<"workers", "age_gender">>].ret.kind = "figure"
    /\ out[<<"workers", "age_gender">>].args = <<ALL, ALL, ALL>>

\* the page registered for each route
Routes ==
    {<<"/paps", "paps">>, <<"/workers", "workers">>,
     <<"/contractors", "contractors">>, <<"/grc", "grc">>,
     <<"/district", "district">>, <<"/checklist", "checklist">>,
     <<"/crossanalysis", "cross">>}

\* the page of a route, the Executive Summary for anything else
Route(p) ==
    IF \E rt \in Routes : rt[1] = p
    THEN (CHOOSE rt \in Routes : rt[1] = p)[2]
    ELSE "exec"

\* C9: once render has run for the pathname, the page shown is the page of
\* the route for /paps, /workers, /contractors, /grc, /district, /checklist
\* and /crossanalysis, and the Executive Summary for every other pathname.
C9_RenderRoutes ==
    (Running /\ <<"app", "render">> \notin pending) =>
        /\ content.page = Route(pathname)
        /\ content.page \in {"exec", "paps", "workers", "contractors", "grc",
                             "district", "checklist", "cross"}

\* render has run for /crossanalysis, and for a path that is no route
C9_Witness ==
    /\ Running
    /\ <<"app", "render">> \notin pending
    /\ \/ pathname = "/crossanalysis" /\ content.page = "cross"
       \/ pathname = "/unknown" /\ content.page = "exec"

\* the PAPs update_kpis call that came back with cards
KpiCall ==
    /\ call.fn = "output"
    /\ call.cb = <<"paps", "update_kpis">>
    /\ call.ret.kind = "kpis"

Yes(rows) == Len(SelectSeq(rows, LAMBDA r : r.compensation_received = "Yes"))

Abs(x) == IF x < 0 THEN -x ELSE x

\* C10 (as the code has it): for a non-empty subset of n rows of which k are
\* compensated, the Compensation Rate card shows the whole number nearest to
\* 100 * k / n, and its sub-text reports k of n.
C10_CompensationRate ==
    KpiCall =>
        LET rows == Matching("paps", call.args)
            n    == Len(rows)
            k    == Yes(rows)
        IN  /\ n > 0
            /\ call.ret.comp_sub = <<k, n>>
            /\ 2 * Abs(call.ret.comp_value * n - 100 * k) <= n

\* one or two of three rows compensated: the card shows 33 or 67
C10_Witness ==
    /\ KpiCall
    /\ call.ret.comp_sub[2] = 3
    /\ call.ret.comp_sub[1] \in {1, 2}

\* C10 (as stated): the card shows 100 * k / n itself.
C10_AsStated ==
    KpiCall =>
        LET rows == Matching("paps", call.args)
        IN  /\ call.ret.comp_sub = <<Yes(rows), Len(rows)>>
            /\ call.ret.comp_value * Len(rows) = 100 * Yes(rows)

-----------------------------------------------------------------------------
(* Scores *)

RECURSIVE SumSeq(_)
SumSeq(q) == IF q = <<>> THEN 0 ELSE q[1] + SumSeq(Tail(q))

RECURSIVE ProdSeq(_)
ProdSeq(q) == IF q = <<>> THEN 1 ELSE q[1] * ProdSeq(Tail(q))

\* g is the sum of the ratios xs weighted by the percentages ws, which add up
\* to 100: both sides are brought to the common denominator
IsWeightedSum(g, ws, xs) ==
    LET D == ProdSeq([i \in 1..Len(xs) |-> xs[i][2]])
    IN  /\ Len(ws) = Len(xs)
        /\ SumSeq(ws) = 100
        /\ g[1] * 100 * D
             = g[2] * SumSeq([i \in 1..Len(xs) |->
                                ws[i] * xs[i][1] * (D \div xs[i][2])])

\* a percentage capped at k and brought to the scale of 100
Capped(x, k) == <<100 * (IF x > k THEN k ELSE x), k>>

\* C11: the global score of every row of the Contractors, GRC and District
\* tables is the sum of its component percentages weighted 30/30/20/10/10
\* (instruments, compliance, training, gender, local), 40/20/20/20
\* (resolution, training, facilities, low escalation) and 35/25/20/20
\* (compensation, instruments, staff, GRM facilitation), the weights of each
\* adding up to 100%.
C11_GlobalScores ==
    /\ \A i \in DOMAIN CONTRACTORS.rows :
         LET r == CONTRACTORS.rows[i] IN
         IsWeightedSum(r.global_score, <<30, 30, 20, 10, 10>>,
                       <<r.inst_score, r.comp_score, r.training_coverage,
                         Capped(r.women_percent, 50),
                         Capped(r.local_percent, 100)>>)
    /\ \A i \in DOMAIN GRC.rows :
         LET r == GRC.rows[i] IN
         IsWeightedSum(r.global_score, <<40, 20, 20, 20>>,
                       <<r.resolution_rate, r.train_score, r.facil_score,
                         r.esc_score>>)
    /\ \A i \in DOMAIN DIST.rows :
         LET r == DIST.rows[i] IN
         IsWeightedSum(r.global_score, <<35, 25, 20, 20>>,
                       <<r.compensation_rate, r.inst_score, r.staff_score,
                         r.grm_facil_score>>)

\* a contractor with more than 50% of women and a score that is not a whole
\* number, a committee with a third of its complaints resolved, and a district
\* whose progress is above 100
C11_Witness ==
    \/ \E i \in DOMAIN CONTRACTORS.rows :
         /\ CONTRACTORS.rows[i].women_percent > 50
         /\ CONTRACTORS.rows[i].global_score[2] > 1
    \/ \E i \in DOMAIN GRC.rows :
         /\ GRC.rows[i].resolution_rate = <<100, 3>>
         /\ Less(<<0, 1>>, GRC.rows[i].global_score)
    \/ \E i \in DOMAIN DIST.rows :
         /\ DIST.rows[i].compensation_progress = <<150, 1>>
         /\ DIST.rows[i].INST_COLS = 7

-----------------------------------------------------------------------------
(* Cascade *)

\* the cascade callback that writes dropdown j of a page
Writer(pg, j) ==
    CHOOSE cb \in CascadeCallbacks : cb[1] = pg /\ CascadeChild(cb) = j

\* a step in which a cascade callback writes dropdown j of the shown page
Resets(j) ==
    /\ j > 1
    /\ Writer(content.page, j) \in pending \ pending'

\* a step in which dropdown i of the shown page gets a value: the one the user
\* picked, or the one a cascade callback returned
Written(i) ==
    /\ content.kind = "full"
    /\ content' = content
    /\ i \in DOMAIN sel
    /\ \/ pending = {} /\ sel'[i] # sel[i]
       \/ Resets(i)

\* C12: when a dropdown gets a value, the cascade callback of every dropdown
\* below it is due before the page settles, and the value a cascade callback
\* writes is ALL whatever the dropdown held and whatever the new options are.
C12_CascadeReset ==
    [][\A i \in 1..3 :
         Written(i) =>
            /\ Resets(i) => sel'[i] = ALL
            /\ \A j \in DOMAIN sel :
                  j > i => Writer(content.page, j) \in pending']_vars

\* a parent was changed while its child held a value that is among the options
\* of the new parent, and the child's cascade callback is about to run
C12_Witness ==
    /\ Running
    /\ content.kind = "full"
    /\ \E cb \in pending \cap CascadeCallbacks :
          LET c == CascadeChild(cb) IN
          /\ Ready(cb)
          /\ sel[c] # ALL
          /\ sel[c - 1] # ALL
          /\ sel[c] \in Range(cascade(cb, Args(cb)).options)

-----------------------------------------------------------------------------
(* Sidebar *)

\* the index in NAV of the entry of a path
Label(path) == CHOOSE i \in 1..Len(NAV) : NAV[i][1] = path

\* C13: for every pathname update_sidebar gives the active style to exactly
\* one navigation entry, the entry of the page that render returns for that
\* pathname; for /, no pathname and a pathname that is no route it is the
\* Executive Summary entry.
C13_SidebarActive ==
    call.fn = "update_sidebar" =>
        \E q \in NavPaths :
            /\ call.ret = {q}
            /\ Route(q) = render(call.pathname)
            /\ call.pathname \in {"/", None, "/unknown"} =>
                   NAV[Label(q)] = <<"/", "Executive Summary">>

\* update_sidebar has returned for a pathname that is no route, and for the
\* route of a page
C13_Witness ==
    /\ call.fn = "update_sidebar"
    /\ \/ call.pathname = "/unknown" /\ call.ret = {"/"}
       \/ call.pathname = "/grc" /\ call.ret = {"/grc"}

-----------------------------------------------------------------------------
(* Navigation *)

\* every dropdown of the shown page is at ALL
Unfiltered == \A i \in DOMAIN sel : sel[i] = ALL

\* a step in which render returns the layout of a filtered page
Renders ==
    /\ Running
    /\ <<"app", "render">> \in pending \ pending'
    /\ content'.kind = "full"
    /\ content'.page \in FilteredPages

\* C14: render gives a filtered page dropdowns that are all at ALL and outputs
\* not yet computed, whatever was selected on the page shown before; the
\* dropdowns stay at ALL while the callbacks of the new page run; and once
\* they have run, the outputs are those of the unfiltered table.
C14_FreshOnRender ==
    /\ [][Renders =>
            /\ DOMAIN sel' = 1..Len(PageFilters(content'.page))
            /\ Unfiltered'
            /\ \A cb \in DOMAIN out' : out'[cb] = Unset]_vars
    /\ [][(Running /\ pending # {} /\ content' = content /\ Unfiltered)
              => Unfiltered']_vars
    /\ [](SettledPage /\ Unfiltered =>
            \A cb \in DOMAIN out :
               /\ out[cb].args = sel
               /\ out[cb].ret.kind = "kpis" =>
                     out[cb].ret.rows = Len(PageTable(content.page).rows))

\* a filtered page with a selection is shown, the user has navigated to
\* another filtered page, and render is about to run
C14_Witness ==
    /\ Running
    /\ <<"app", "render">> \in pending
    /\ content.kind = "full"
    /\ content.page \in FilteredPages
    /\ ~Unfiltered
    /\ render(pathname) \in FilteredPages \ {content.page}

-----------------------------------------------------------------------------
(* The District and GRC pages against the Executive Summary *)

\* an output callback has returned cards for the unfiltered table of its page
UnfilteredKpis(cb) ==
    /\ call.fn = "output"
    /\ call.cb = cb
    /\ \A i \in DOMAIN call.args : call.args[i] = ALL
    /\ call.ret.kind = "kpis"

\* C15: with no filter, the Resolution Rate card of the GRC page shows the
\* resolution rate the Executive Summary computes from the same file and
\* shows on its own card, both written with no decimals.
C15_SameResolutionRate ==
    UnfilteredKpis(<<"grc", "update_kpis">>) =>
        LET g == compute_metrics(ES).g_res_rate
        IN  call.ret.res_value = fmt0(g[1], g[2])

\* C16: with no filter, the Compensation Rate card of the District page shows
\* the district compensation rate the Executive Summary computes from the
\* same file and shows on its own card, both written with no decimals.
C16_SameCompensationRate ==
    UnfilteredKpis(<<"district", "update_kpis">>) =>
        LET d == compute_metrics(ES).d_comp_rate
        IN  call.ret.comp_value = fmt0(d[1], d[2])

\* the rows named by the alerts of one kind
AlertRows(alerts, kind) ==
    {alerts[k].row : k \in {k \in DOMAIN alerts : alerts[k].kind = kind}}

\* C17: the rows for which _build_alerts raises the critical-compensation
\* alert, and those for which it raises the backlog-anomaly alert, are the
\* rows for which update_alerts of the District page raises them with no
\* filter.
C17_SameAlertRows ==
    call.fn = "_build_alerts" =>
        LET page == district_alerts(district_get_df(ALL, ALL))
        IN  /\ AlertRows(call.ret.alerts, "critical")
                 = AlertRows(page, "critical")
            /\ AlertRows(call.ret.alerts, "anomaly")
                 = AlertRows(page, "anomaly")

-----------------------------------------------------------------------------
(* Alerts and the health score *)

\* update_alerts of the District page has returned
AlertsCall ==
    /\ call.fn = "output"
    /\ call.cb = <<"district", "update_alerts">>
    /\ call.ret.kind \in {"alerts", "span"}

\* the banners it returned
Banners == IF call.ret.kind = "alerts" THEN call.ret.alerts ELSE <<>>

\* the number of banners of a kind raised for row i
Raised(kind, i) ==
    Cardinality({k \in DOMAIN Banners :
                    Banners[k].kind = kind /\ Banners[k].row = i})

\* C18: for each row of the filtered District subset, update_alerts raises
\* the backlog-anomaly alert once when not_yet_compensated_count exceeds
\* households_affected, otherwise the critical alert once exactly when
\* compensation_rate is below 30, and never both; when no row meets the
\* condition of any alert, what it returns holds no alert.
C18_OneCompensationAlert ==
    AlertsCall =>
        LET rows == Matching("district", call.args)
            Anomalous(r) == r.not_yet_compensated_count > r.households_affected
            Low(r)       == r.compensation_rate[1] < 30 * r.compensation_rate[2]
            Quiet(r)     == /\ ~Anomalous(r) /\ ~Low(r)
                            /\ r.INST_COLS > 6
                            /\ r.staff_env_specialist + r.staff_social_specialist > 0
        IN  /\ \A i \in DOMAIN rows :
                  /\ Raised("anomaly", i) + Raised("critical", i) <= 1
                  /\ Raised("anomaly", i) = 1 <=> Anomalous(rows[i])
                  /\ Raised("critical", i) = 1 <=>
                         (~Anomalous(rows[i]) /\ Low(rows[i]))
            /\ (\A i \in DOMAIN rows : Quiet(rows[i])) => call.ret = EmptySpan

\* a row with a backlog above its households and a rate below 30 got the
\* anomaly alert alone
C18_Witness ==
    /\ AlertsCall
    /\ \E i \in DOMAIN Matching("district", call.args) :
          LET r == Matching("district", call.args)[i] IN
          /\ r.not_yet_compensated_count > r.households_affected
          /\ r.compensation_progress = <<20, 1>>
          /\ Raised("anomaly", i) = 1
          /\ Raised("critical", i) = 0

\* C19: the health score of _project_score_gauge and each of the six
\* dimensions it combines lie between 0 and 100.
C19_ScoreInRange ==
    call.fn = "_project_score_gauge" =>
        /\ call.ret.score[1] >= 0
        /\ call.ret.score[1] <= 100 * call.ret.score[2]
        /\ \A i \in 1..6 :
              /\ call.ret.dims[i][1] >= 0
              /\ call.ret.dims[i][1] <= 100 * call.ret.dims[i][2]

\* the conditions under which _build_alerts adds an alert, read from the
\* tables of the Executive Summary
AlertCondition ==
    LET dist    == ES["district"].rows
        workers == ES["workers"].rows
        contr   == ES["contractors"].rows
    IN  \/ \E i \in DOMAIN dist :
              dist[i].not_yet_compensated_count > dist[i].households_affected
        \/ \E i \in DOMAIN dist :
              /\ dist[i].compensation_progress # nan
              /\ dist[i].compensation_progress[1]
                    < 30 * dist[i].compensation_progress[2]
        \/ 100 * Cardinality({i \in DOMAIN contr :
                                contr[i].incidents_occurred = "Yes"})
              >= 70 * Len(contr)
        \/ \E i \in DOMAIN workers : workers[i].training_count = 0
        \/ 2 * Cardinality({i \in DOMAIN workers : workers[i].train_gbv = 1})
              < Len(workers)
        \/ Cardinality({i \in DOMAIN ES["PAPs"].rows :
                          ES["PAPs"].rows[i].grievance_resolved
                              = "Not resolved"}) > 5

\* C20: _build_alerts returns the 'No critical alerts' message exactly when
\* none of its alert conditions holds for the loaded tables, and a non-empty
\* list of alerts otherwise.
C20_NoAlertsMessage ==
    call.fn = "_build_alerts" =>
        /\ call.ret = NoCriticalAlerts <=> ~AlertCondition
        /\ AlertCondition =>
              call.ret.kind = "alerts" /\ call.ret.alerts # <<>>

-----------------------------------------------------------------------------
(* Contractors: incidents whose count is missing *)

\* a contractor that reports incidents and no count of them
CountMissing(r) == r.incidents_occurred = "Yes" /\ r.incidents_count = nan

\* C21: on a subset of the Contractors table that holds a row with
\* incidents_occurred = 'Yes' and no incidents_count, the incidents chart and
\* the scoring table raise nothing and both hold an output for every row of
\* the subset, that row included.
C21_IncidentsRendered ==
    /\ call.fn = "output"
    /\ call.cb \in {<<"contractors", "incidents">>,
                    <<"contractors", "scoring_table">>}
    /\ \E i \in DOMAIN Matching("contractors", call.args) :
          CountMissing(Matching("contractors", call.args)[i])
    => /\ call.ret.kind # "raise"
       /\ call.ret.rows = Len(Matching("contractors", call.args))

-----------------------------------------------------------------------------
(* GRC: the rates and the scores of a committee *)

\* rate is 100 x part / received capped at 100, and 0 when nothing was
\* received: the quotient is compared by cross-multiplication
IsRate(rate, part, received) ==
    IF received = 0 THEN rate = <<0, 1>>
    ELSE IF part >= received THEN rate = <<100, 1>>
    ELSE rate[1] * received = 100 * part * rate[2]

Percentage(x) == x[2] > 0 /\ x[1] >= 0 /\ x[1] <= 100 * x[2]

\* C22: for each row of the GRC table, resolution_rate, escalation_rate and
\* pending_rate are 100 x complaints_resolved, complaints_escalated and
\* complaints_pending over complaints_received, capped at 100; they are 0
\* when complaints_received is 0, and they lie between 0 and 100.
C22_GrcRates ==
    \A i \in DOMAIN GRC.rows :
       LET r == GRC.rows[i] IN
       /\ IsRate(r.resolution_rate, r.complaints_resolved,
                 r.complaints_received)
       /\ IsRate(r.escalation_rate, r.complaints_escalated,
                 r.complaints_received)
       /\ IsRate(r.pending_rate, r.complaints_pending,
                 r.complaints_received)
       /\ Percentage(r.resolution_rate)
       /\ Percentage(r.escalation_rate)
       /\ Percentage(r.pending_rate)

\* a table with a committee that received nothing and a committee with more
\* complaints resolved and more pending than received
C22_Witness ==
    /\ \E i \in DOMAIN GRC.rows :
          /\ GRC.rows[i].complaints_received = 0
          /\ GRC.rows[i].resolution_rate = <<0, 1>>
    /\ \E i \in DOMAIN GRC.rows :
          /\ GRC.rows[i].complaints_resolved > GRC.rows[i].complaints_received
          /\ GRC.rows[i].complaints_pending > GRC.rows[i].complaints_received
          /\ GRC.rows[i].complaints_received > 0
          /\ GRC.rows[i].resolution_rate = <<100, 1>>
          /\ GRC.rows[i].pending_rate = <<100, 1>>

\* the counts of a committee are whole numbers that are not negative
NonNegative(r) ==
    /\ r.complaints_received >= 0
    /\ r.complaints_resolved >= 0
    /\ r.complaints_escalated >= 0
    /\ r.complaints_pending >= 0
    /\ r.training_count >= 0
    /\ r.FACIL_COLS >= 0

\* C23: for every row of the GRC table whose counts are not negative,
\* train_score, facil_score, esc_score and the global_score computed from
\* them lie between 0 and 100.
C23_GrcScoresInRange ==
    \A i \in DOMAIN GRC.rows :
       LET r == GRC.rows[i] IN
       NonNegative(r) =>
          /\ Percentage(r.train_score)
          /\ Percentage(r.facil_score)
          /\ Percentage(r.esc_score)
          /\ Percentage(r.global_score)

====
